---- MODULE Spec2Model ----
(***************************************************************************)
(* State machine of the slide-deck editor's top-level controller (App):    *)
(* the deck, the selection, the undo/redo history log and the per-slide    *)
(* media jobs.  Every handler of the component is one action.  A handler   *)
(* reads the values of the render in which it was created (its closure)    *)
(* and queues state updates; functional updaters (prev => ...) are applied *)
(* to the live value, in the order they were queued.                       *)
(***************************************************************************)
EXTENDS Integers, Sequences, FiniteSets, TLC

VARIABLES
    slides,              \* useState<Slide[]>            (App, line 11)
    currentSlideIndex,   \* useState(0)                  (line 12)
    status,              \* useState<GenerationStatus>   (line 13)
    presentationTitle,   \* useState('')                 (line 14)
    history,             \* useState<{slides,title}[]>   (line 18)
    historyIndex,        \* useState(-1)                 (line 19)
    isRestoringHistory,  \* useState(false)              (line 20)
    timers,              \* pending setTimeout(() => setIsRestoringHistory(false), 0)
    jobs,                \* media jobs awaiting the generation client
    storage,             \* localStorage[STORAGE_KEY]
    clock,               \* Date.now(), the source of slide ids
    apiKey,              \* process.env.API_KEY is set (fixed for a session)
    notice,              \* text of the alert() raised by the last handler run
    lastPush,            \* << >>, or <<e>> when the last step pushed to the log
                         \* and e was the entry before the pushed one
    lastJob,             \* << >>, or <<j>> when the last step completed the job
                         \* with closure j
    request,             \* << >>, or <<r>> while a structuring call is pending
                         \* and r was the state when it was requested
    budget               \* handler runs other than navigation still allowed

vars == <<slides, currentSlideIndex, status, presentationTitle, history,
          historyIndex, isRestoringHistory, timers, jobs, storage, clock, apiKey,
          notice, lastPush, lastJob, request, budget>>

----------------------------------------------------------------------------
(* Bounds of the model *)

MaxOps == 3           \* handler runs other than navigation, per behaviour
DeepOps == 2          \* MaxOps of the specification that starts next to the limit

(* Program constants *)

HistoryLimit == 30    \* if (newHistory.length > 30) newHistory.shift()
ShiftedIndex == 29    \* history.length > 30 ? 29 : nextIndex
FetchAttempts == 3    \* for (let i = 0; i < 3; i++) { ... fetch(fetchUrl) ... }

NoUrl == "undefined"  \* mediaUrl absent or undefined
NoStorage == << >>    \* localStorage.getItem(STORAGE_KEY) === null

Topics == {"T2"}                \* topics typed into the input form
Texts == {"b"}                  \* text typed into a slide's title field
Layouts == {"center"}           \* layouts picked in the layout selector
Kinds == {"image", "video"}
GenSizes == {0, 2}               \* numbers of slides the structuring call returns
Urls == {"u1"}                  \* locators returned by the generation client

NoNotice == ""
DeleteRefused == "Presentation must have at least one slide."
MediaFailed == "Media generation failed. Please try again."
StructureFailed == "Failed to generate structure. Please check your API key."

Min(a, b) == IF a < b THEN a ELSE b

----------------------------------------------------------------------------
(* Slides *)

\* A slide of the deck.  isLoadingMedia is optional in the Slide type:
\* "unset" is the absent key.  content, subtitle, notes and imagePrompt are
\* free text like title and are represented by title.
MkSlide(id, layout, title, mediaType, mediaUrl, loading) ==
    [id |-> id, layout |-> layout, title |-> title, mediaType |-> mediaType,
     mediaUrl |-> mediaUrl, isLoadingMedia |-> loading]

\* slides.map(s => s.id === id ? f(s) : s)
MapById(ss, id, f(_)) ==
    [i \in 1..Len(ss) |-> IF ss[i].id = id THEN f(ss[i]) ELSE ss[i]]

\* slides.map((s, i) => i === 0 ? f(s) : s)
MapFirst(ss, f(_)) ==
    [i \in 1..Len(ss) |-> IF i = 1 THEN f(ss[i]) ELSE ss[i]]

\* slides.find(s => s.id === id) !== undefined
HasSlide(ss, id) == \E i \in 1..Len(ss) : ss[i].id = id

\* JSON.stringify of one slide: keys in insertion order, undefined values and
\* absent keys omitted.
SlideJson(s) ==
    << <<"id", ToString(s.id)>>, <<"layout", s.layout>>, <<"title", s.title>>,
       <<"mediaType", s.mediaType>> >>
    \o (IF s.isLoadingMedia = "unset" THEN << >>
        ELSE << <<"isLoadingMedia", s.isLoadingMedia>> >>)
    \o (IF s.mediaUrl = NoUrl THEN << >> ELSE << <<"mediaUrl", s.mediaUrl>> >>)

\* JSON.stringify(slides)
SlidesJson(ss) == [i \in 1..Len(ss) |-> SlideJson(ss[i])]

JsonField(js, key, default) ==
    IF \E i \in 1..Len(js) : js[i][1] = key
    THEN js[CHOOSE i \in 1..Len(js) : js[i][1] = key][2]
    ELSE default

\* JSON.parse of one stored slide
ParseSlide(js) ==
    MkSlide(CHOOSE n \in 0..100 : ToString(n) = JsonField(js, "id", "0"),
            JsonField(js, "layout", NoUrl), JsonField(js, "title", NoUrl),
            JsonField(js, "mediaType", NoUrl), JsonField(js, "mediaUrl", NoUrl),
            JsonField(js, "isLoadingMedia", "unset"))

ParseSlides(json) == [i \in 1..Len(json) |-> ParseSlide(json[i])]

----------------------------------------------------------------------------
(* History log *)

Entry(ss, title) == [slides |-> ss, title |-> title]

\* Array.prototype.slice(0, n) for n >= 0
Slice(h, n) == SubSeq(h, 1, Min(n, Len(h)))

PushLogNoShift(prev, cIdx, ss, title) ==
    Append(SubSeq(prev, 1, IF cIdx + 1 < Len(prev) THEN cIdx + 1 ELSE Len(prev)),
           [slides |-> ss, title |-> title])

\* The setHistory updater of pushToHistory: prev is the live log, cIdx the
\* historyIndex of the render that created the callback.
PushLog(prev, cIdx, ss, title) ==
    LET newHistory == Append(Slice(prev, cIdx + 1), Entry(ss, title))
    IN  IF Len(newHistory) > HistoryLimit THEN Tail(newHistory) ELSE newHistory

\* The setHistoryIndex updater of pushToHistory: prev is the live index, cLen
\* the length of the history of the render that created the callback.
PushIndex(prev, cLen) ==
    IF cLen > HistoryLimit THEN ShiftedIndex ELSE prev + 1

\* The entry at the index, history[historyIndex], when there is one.
EntryAt(h, i) == IF i >= 0 /\ i < Len(h) THEN << h[i + 1] >> ELSE << >>

\* The persistence effect, run after every render.
Persist(st, ss, title, old) ==
    IF st = "complete" /\ Len(ss) > 0
    THEN << [slides |-> SlidesJson(ss), title |-> title, status |-> st] >>
    ELSE old

----------------------------------------------------------------------------
(* Initial state *)

\* A project left in localStorage by an earlier session.
SavedSlides ==
    << MkSlide(1, "title", "a", "image", "u1", "false"),
       MkSlide(2, "conclusion", "a", "none", NoUrl, "false") >>

SavedProject ==
    << [slides |-> SlidesJson(SavedSlides), title |-> "T1", status |-> "complete"] >>

\* useState initial values, no saved project: the mount effect changes nothing.
InitFresh ==
    /\ slides = << >>
    /\ currentSlideIndex = 0
    /\ status = "idle"
    /\ presentationTitle = ""
    /\ history = << >>
    /\ historyIndex = -1
    /\ storage = NoStorage
    /\ clock = 1

\* useState initial values followed by the mount effect restoring the saved
\* project and seeding the history with it.
InitRestored ==
    /\ storage = SavedProject
    /\ slides = ParseSlides(storage[1].slides)
    /\ currentSlideIndex = 0
    /\ status = "complete"
    /\ presentationTitle = storage[1].title
    /\ history = << Entry(slides, presentationTitle) >>
    /\ historyIndex = 0
    /\ clock = 3

Init ==
    /\ InitFresh \/ InitRestored
    /\ isRestoringHistory = FALSE
    /\ timers = 0
    /\ jobs = << >>
    /\ apiKey \in BOOLEAN
    /\ notice = NoNotice
    /\ lastPush = << >>
    /\ lastJob = << >>
    /\ request = << >>
    /\ budget = MaxOps

----------------------------------------------------------------------------
(* Handlers of the editor view *)

\* The editor view, with its buttons, is rendered unless the input form is.
EditorShown == status \notin {"idle", "analyzing"}

\* const currentSlide = slides[currentSlideIndex]; SlideView is rendered for it.
HasCurrentSlide == currentSlideIndex < Len(slides)

CurrentSlide == slides[currentSlideIndex + 1]

\* Array.prototype.splice(at, 0, x) on a copy: at beyond the end appends.
InsertAt(ss, at, x) ==
    LET k == Min(at, Len(ss))
    IN  SubSeq(ss, 1, k) \o << x >> \o SubSeq(ss, k + 1, Len(ss))

RemoveNext(ss, index) ==
    SubSeq(ss, 1, index + 1) \o SubSeq(ss, index + 3, Len(ss))

\* slides.filter((_, i) => i !== index)
RemoveAt(ss, index) ==
    SubSeq(ss, 1, index) \o SubSeq(ss, index + 2, Len(ss))

\* Two pushToHistory calls of one handler run: both updaters were created by
\* the same render and read its historyIndex and history.
PushTwiceLog(pre, post) ==
    PushLog(PushLog(history, historyIndex, pre, presentationTitle),
            historyIndex, post, presentationTitle)

PushTwiceIndex == PushIndex(PushIndex(historyIndex, Len(history)), Len(history))

NewSlide == MkSlide(clock, "split-right", "New Slide", "none", NoUrl, "unset")

AddSlide ==
    /\ EditorShown
    /\ budget > 0
    /\ LET newSlides == InsertAt(slides, currentSlideIndex + 1, NewSlide)
       IN  /\ slides' = newSlides
           /\ history' = PushTwiceLog(slides, newSlides)
    /\ historyIndex' = PushTwiceIndex
    /\ currentSlideIndex' = currentSlideIndex + 1
    /\ clock' = clock + 1
    /\ notice' = NoNotice
    /\ lastPush' = << Entry(slides, presentationTitle) >>
    /\ budget' = budget - 1
    /\ storage' = Persist(status, slides', presentationTitle, storage)
    /\ lastJob' = << >>
    /\ UNCHANGED request
    /\ UNCHANGED <<status, presentationTitle, isRestoringHistory, timers, jobs, apiKey>>

OnlyEmptyDeck(ss) == Len(ss) < 1

\* if (slides.length <= 1) { alert(...); return; }
OnlySlideLeft(ss) == Len(ss) <= 1

DeleteSlideAt(index) ==
    /\ EditorShown
    /\ IF OnlySlideLeft(slides)
       THEN /\ notice' = DeleteRefused
            /\ lastPush' = << >>
            /\ UNCHANGED <<slides, currentSlideIndex, history, historyIndex,
                           storage, budget>>
       ELSE /\ budget > 0
            /\ LET newSlides == RemoveAt(slides, index)
               IN  /\ slides' = newSlides
                   /\ history' = PushTwiceLog(slides, newSlides)
            /\ historyIndex' = PushTwiceIndex
            /\ currentSlideIndex' =
                   IF currentSlideIndex >= index /\ currentSlideIndex > 0
                   THEN currentSlideIndex - 1 ELSE currentSlideIndex
            /\ notice' = NoNotice
            /\ lastPush' = << Entry(slides, presentationTitle) >>
            /\ budget' = budget - 1
            /\ storage' = Persist(status, slides', presentationTitle, storage)
    /\ lastJob' = << >>
    /\ UNCHANGED request
    /\ UNCHANGED <<status, presentationTitle, isRestoringHistory, timers, jobs, clock, apiKey>>

\* The delete button of thumbnail index calls deleteSlide(index).
DeleteSlide == \E index \in 0..(Len(slides) - 1) : DeleteSlideAt(index)

MovedOffByOne(ss, fromIndex, toIndex) ==
    InsertAt(RemoveAt(ss, fromIndex), toIndex + 1, ss[fromIndex + 1])

\* The deck after splice(fromIndex, 1) and splice(toIndex, 0, movedSlide).
Moved(ss, fromIndex, toIndex) ==
    InsertAt(RemoveAt(ss, fromIndex), toIndex, ss[fromIndex + 1])

MoveSlideAt(fromIndex, direction) ==
    /\ EditorShown
    /\ IF \/ direction = "up" /\ fromIndex = 0
          \/ direction = "down" /\ fromIndex = Len(slides) - 1
       THEN /\ lastPush' = << >>
            /\ UNCHANGED <<slides, currentSlideIndex, history, historyIndex,
                           storage, budget>>
       ELSE LET toIndex == IF direction = "up" THEN fromIndex - 1 ELSE fromIndex + 1
                newSlides == Moved(slides, fromIndex, toIndex)
            IN  /\ budget > 0
                /\ slides' = newSlides
                /\ history' = PushTwiceLog(slides, newSlides)
                /\ historyIndex' = PushTwiceIndex
                /\ currentSlideIndex' =
                       IF currentSlideIndex = fromIndex THEN toIndex
                       ELSE IF currentSlideIndex = toIndex THEN fromIndex
                       ELSE currentSlideIndex
                /\ budget' = budget - 1
                /\ lastPush' = << Entry(slides, presentationTitle) >>
                /\ storage' = Persist(status, slides', presentationTitle, storage)
    /\ notice' = NoNotice
    /\ lastJob' = << >>
    /\ UNCHANGED request
    /\ UNCHANGED <<status, presentationTitle, isRestoringHistory, timers, jobs,
                   clock, apiKey>>

\* The arrow buttons of the thumbnails call moveSlide(idx, 'up' | 'down').
MoveSlide ==
    \E fromIndex \in 0..(Len(slides) - 1), direction \in {"up", "down"} :
        MoveSlideAt(fromIndex, direction)

WithLayout(s, layout) == [s EXCEPT !.layout = layout]

ChangeLayout ==
    /\ EditorShown
    /\ budget > 0
    /\ HasCurrentSlide
    /\ \E layout \in Layouts :
          LET setLayout(s) == WithLayout(s, layout)
              newSlides == MapById(slides, CurrentSlide.id, setLayout)
          IN  /\ slides' = newSlides
              /\ history' = PushTwiceLog(slides, newSlides)
    /\ historyIndex' = PushTwiceIndex
    /\ notice' = NoNotice
    /\ lastPush' = << Entry(slides, presentationTitle) >>
    /\ budget' = budget - 1
    /\ storage' = Persist(status, slides', presentationTitle, storage)
    /\ lastJob' = << >>
    /\ UNCHANGED request
    /\ UNCHANGED <<currentSlideIndex, status, presentationTitle, isRestoringHistory,
                   timers, jobs, clock, apiKey>>

UncaughtTypeError == "TypeError: Cannot read properties of undefined"

\* history[historyIndex - 1] is undefined when the index has run past the log:
\* reading prevState.slides then throws, after setIsRestoringHistory(true)
\* was queued and before the timer that resets it is set.
Undo ==
    /\ EditorShown
    /\ historyIndex > 0
    /\ budget > 0
    /\ budget' = budget - 1
    /\ isRestoringHistory' = TRUE
    /\ lastPush' = << >>
    /\ IF historyIndex - 1 < Len(history)
       THEN LET prevState == history[historyIndex]
            IN  /\ slides' = prevState.slides
                /\ presentationTitle' = prevState.title
                /\ historyIndex' = historyIndex - 1
                /\ timers' = timers + 1
                /\ notice' = NoNotice
       ELSE /\ notice' = UncaughtTypeError
            /\ UNCHANGED <<slides, presentationTitle, historyIndex, timers>>
    /\ storage' = Persist(status, slides', presentationTitle', storage)
    /\ lastJob' = << >>
    /\ UNCHANGED request
    /\ UNCHANGED <<currentSlideIndex, status, history, jobs, clock, apiKey>>

Redo ==
    /\ EditorShown
    /\ historyIndex < Len(history) - 1
    /\ budget > 0
    /\ budget' = budget - 1
    /\ isRestoringHistory' = TRUE
    /\ LET nextState == history[historyIndex + 2]
       IN  /\ slides' = nextState.slides
           /\ presentationTitle' = nextState.title
    /\ historyIndex' = historyIndex + 1
    /\ timers' = timers + 1
    /\ notice' = NoNotice
    /\ lastPush' = << >>
    /\ storage' = Persist(status, slides', presentationTitle', storage)
    /\ lastJob' = << >>
    /\ UNCHANGED request
    /\ UNCHANGED <<currentSlideIndex, status, history, jobs, clock, apiKey>>

\* setTimeout(() => setIsRestoringHistory(false), 0) fires.
RestoreTimer ==
    /\ timers > 0
    /\ timers' = timers - 1
    /\ isRestoringHistory' = FALSE
    /\ notice' = NoNotice
    /\ lastPush' = << >>
    /\ lastJob' = << >>
    /\ UNCHANGED request
    /\ UNCHANGED <<slides, currentSlideIndex, status, presentationTitle, history,
                   historyIndex, jobs, storage, clock, apiKey, budget>>

DeleteProjectKeepsLog(confirmed) ==
    /\ EditorShown
    /\ budget > 0
    /\ IF confirmed
       THEN /\ storage' = NoStorage
            /\ slides' = << >>
            /\ presentationTitle' = ""
            /\ status' = "idle"
            /\ budget' = budget - 1
            /\ UNCHANGED <<history, historyIndex>>
       ELSE UNCHANGED <<storage, slides, presentationTitle, status, history,
                       historyIndex, budget>>
    /\ notice' = NoNotice
    /\ lastPush' = << >>
    /\ lastJob' = << >>
    /\ UNCHANGED request
    /\ UNCHANGED <<currentSlideIndex, isRestoringHistory, timers, jobs, clock,
                   apiKey>>

\* deleteProject; confirmed is the answer given to window.confirm.  The
\* persistence effect that follows writes nothing, status being idle.
DeleteProjectIf(confirmed) ==
    /\ EditorShown
    /\ budget > 0
    /\ IF confirmed
       THEN /\ storage' = NoStorage
            /\ slides' = << >>
            /\ presentationTitle' = ""
            /\ status' = "idle"
            /\ history' = << >>
            /\ historyIndex' = -1
            /\ budget' = budget - 1
       ELSE UNCHANGED <<storage, slides, presentationTitle, status, history,
                       historyIndex, budget>>
    /\ notice' = NoNotice
    /\ lastPush' = << >>
    /\ lastJob' = << >>
    /\ UNCHANGED request
    /\ UNCHANGED <<currentSlideIndex, isRestoringHistory, timers, jobs, clock,
                   apiKey>>

DeleteProject == \E confirmed \in BOOLEAN : DeleteProjectIf(confirmed)

\* handleSlideUpdate(id, { title: text }) from a text field of the slide shown.
EditText ==
    /\ EditorShown
    /\ HasCurrentSlide
    /\ budget > 0
    /\ \E text \in Texts :
          LET setTitle(s) == [s EXCEPT !.title = text]
          IN  slides' = MapById(slides, CurrentSlide.id, setTitle)
    /\ notice' = NoNotice
    /\ lastPush' = << >>
    /\ budget' = budget - 1
    /\ storage' = Persist(status, slides', presentationTitle, storage)
    /\ lastJob' = << >>
    /\ UNCHANGED request
    /\ UNCHANGED <<currentSlideIndex, status, presentationTitle, history,
                   historyIndex, isRestoringHistory, timers, jobs, clock, apiKey>>

\* handleSlideUpdate(id, { mediaUrl: undefined, mediaType: None }): the Remove
\* button, shown over the media of a slide that is not loading.
RemoveMedia ==
    /\ EditorShown
    /\ HasCurrentSlide
    /\ budget > 0
    /\ CurrentSlide.isLoadingMedia # "true"
    /\ CurrentSlide.mediaUrl # NoUrl
    /\ LET clear(s) == [s EXCEPT !.mediaUrl = NoUrl, !.mediaType = "none"]
       IN  slides' = MapById(slides, CurrentSlide.id, clear)
    /\ notice' = NoNotice
    /\ lastPush' = << >>
    /\ budget' = budget - 1
    /\ storage' = Persist(status, slides', presentationTitle, storage)
    /\ lastJob' = << >>
    /\ UNCHANGED request
    /\ UNCHANGED <<currentSlideIndex, status, presentationTitle, history,
                   historyIndex, isRestoringHistory, timers, jobs, clock, apiKey>>

\* const lastState = history[historyIndex]
HasLastState == historyIndex >= 0 /\ historyIndex < Len(history)

\* saveSnapshot returns without pushing.
SnapshotSkipped ==
    \/ isRestoringHistory
    \/ /\ HasLastState
       /\ SlidesJson(history[historyIndex + 1].slides) = SlidesJson(slides)

SaveSnapshot ==
    /\ EditorShown
    /\ HasCurrentSlide
    /\ IF SnapshotSkipped
       THEN /\ lastPush' = << >>
            /\ UNCHANGED <<history, historyIndex, budget>>
       ELSE /\ budget > 0
            /\ history' = PushLog(history, historyIndex, slides, presentationTitle)
            /\ historyIndex' = PushIndex(historyIndex, Len(history))
            /\ budget' = budget - 1
            /\ lastPush' = EntryAt(history, historyIndex)
    /\ notice' = NoNotice
    /\ lastJob' = << >>
    /\ UNCHANGED request
    /\ UNCHANGED <<slides, currentSlideIndex, status, presentationTitle,
                   isRestoringHistory, timers, jobs, storage, clock, apiKey>>

\* onClick={() => setCurrentSlideIndex(idx)} on a thumbnail
SelectSlide ==
    /\ EditorShown
    /\ \E idx \in 0..(Len(slides) - 1) : currentSlideIndex' = idx
    /\ notice' = NoNotice
    /\ lastPush' = << >>
    /\ lastJob' = << >>
    /\ UNCHANGED request
    /\ UNCHANGED <<slides, status, presentationTitle, history, historyIndex,
                   isRestoringHistory, timers, jobs, storage, clock, apiKey, budget>>

NextSlide ==
    /\ EditorShown
    /\ currentSlideIndex' =
          IF currentSlideIndex < Len(slides) - 1
          THEN currentSlideIndex + 1 ELSE currentSlideIndex
    /\ notice' = NoNotice
    /\ lastPush' = << >>
    /\ lastJob' = << >>
    /\ UNCHANGED request
    /\ UNCHANGED <<slides, status, presentationTitle, history, historyIndex,
                   isRestoringHistory, timers, jobs, storage, clock, apiKey, budget>>

PrevSlide ==
    /\ EditorShown
    /\ currentSlideIndex' =
          IF currentSlideIndex > 0 THEN currentSlideIndex - 1 ELSE currentSlideIndex
    /\ notice' = NoNotice
    /\ lastPush' = << >>
    /\ lastJob' = << >>
    /\ UNCHANGED request
    /\ UNCHANGED <<slides, status, presentationTitle, history, historyIndex,
                   isRestoringHistory, timers, jobs, storage, clock, apiKey, budget>>

----------------------------------------------------------------------------
(* Media jobs *)

\* The closure of one generateMediaForSlide call suspended at its await:
\* slides, presentationTitle and pushToHistory (with its historyIndex and
\* history) are those of the render in which the button was clicked.
UserJob(id, kind) ==
    [auto |-> FALSE, id |-> id, kind |-> kind, slides |-> slides,
     title |-> presentationTitle, cIdx |-> historyIndex, cLen |-> Len(history)]

\* The title-image promise chain started by handleGenerateStructure for
\* firstSlide = generatedSlides[0]; it reads no state of the component and
\* addresses the slide it updates by position 0.
AutoJob(firstSlide) ==
    [auto |-> TRUE, id |-> firstSlide.id, kind |-> "image", slides |-> << >>,
     title |-> "", cIdx |-> 0, cLen |-> 0]

\* { ...s, isLoadingMedia: true, mediaType: Video or Image }
MarkLoading(s, kind) == [s EXCEPT !.isLoadingMedia = "true", !.mediaType = kind]

MarkFailedStillLoading(s) == [s EXCEPT !.mediaType = "none"]

\* { ...s, isLoadingMedia: false, mediaType: MediaType.None }
MarkFailed(s) == [s EXCEPT !.isLoadingMedia = "false", !.mediaType = "none"]

MarkDoneStillLoading(s, kind, url) ==
    [s EXCEPT !.mediaUrl = url, !.mediaType = IF url # NoUrl THEN kind ELSE "none"]

\* { ...s, isLoadingMedia: false, mediaUrl: mediaUrl || undefined,
\*   mediaType: mediaUrl ? kind : MediaType.None }; url is NoUrl for null.
MarkDone(s, kind, url) ==
    [s EXCEPT !.isLoadingMedia = "false", !.mediaUrl = url,
              !.mediaType = IF url # NoUrl THEN kind ELSE "none"]

\* generateMediaForSlide(slideId, kind) up to its first await: the pre-job
\* push comes before the slide is looked up.
GenerateMediaFor(slideId, kind) ==
    /\ EditorShown
    /\ budget > 0
    /\ LET mark(s) == MarkLoading(s, kind)
       IN  /\ history' = PushLog(history, historyIndex, slides, presentationTitle)
           /\ historyIndex' = PushIndex(historyIndex, Len(history))
           /\ IF HasSlide(slides, slideId)
              THEN /\ slides' = MapById(slides, slideId, mark)
                   /\ jobs' = Append(jobs, UserJob(slideId, kind))
              ELSE UNCHANGED <<slides, jobs>>
    /\ notice' = NoNotice
    /\ lastPush' = EntryAt(history, historyIndex)
    /\ budget' = budget - 1
    /\ storage' = Persist(status, slides', presentationTitle, storage)
    /\ lastJob' = << >>
    /\ UNCHANGED request
    /\ UNCHANGED <<currentSlideIndex, status, presentationTitle, isRestoringHistory,
                   timers, clock, apiKey>>

\* The buttons that call generateMediaForSlide are rendered by SlideView for
\* the slide shown, and not while it is loading.
GenerateMedia ==
    /\ HasCurrentSlide
    /\ CurrentSlide.isLoadingMedia # "true"
    /\ \E kind \in Kinds : GenerateMediaFor(CurrentSlide.id, kind)

\* Slide ids a caller can hold: those issued so far and the next one.
CallIds == 1..clock

\* generateMediaForSlide called directly, with any slide id.
GenerateMediaAny ==
    \E slideId \in CallIds, kind \in Kinds : GenerateMediaFor(slideId, kind)

\* Answers of one fetch of the video asset: res.ok, status 404, or any
\* other status or a network error.
FetchResults == {"ok", "404", "error"}

\* The retry loop of generateSlideVideo from attempt i on: the locator when a
\* fetch succeeds, "throw" when the last attempt throws, and NoUrl when the
\* loop ends without a result (the last attempt answered 404).
RECURSIVE FetchVideo(_, _, _)
FetchVideo(results, i, url) ==
    IF i > FetchAttempts THEN NoUrl
    ELSE IF results[i] = "ok" THEN url
    ELSE IF results[i] = "404" THEN FetchVideo(results, i + 1, url)
    ELSE IF i = FetchAttempts THEN "throw"
    ELSE FetchVideo(results, i + 1, url)

\* generateSlideVideo: getAiClient throws, outside the try block, when the API
\* key is missing; uri is the locator of the finished operation (NoUrl when
\* it has none); whatever is thrown inside the try block is caught and turned
\* into null.
GenerateSlideVideo(results, uri) ==
    IF ~apiKey THEN "raise"
    ELSE IF uri = NoUrl THEN NoUrl
    ELSE LET fetched == FetchVideo(results, 1, uri)
         IN  IF fetched = "throw" THEN NoUrl ELSE fetched

\* generateSlideImage: getAiClient throws when the API key is missing; bytes
\* is the image of the response (NoUrl when there is none or the call failed,
\* which is caught and turned into null).
GenerateSlideImage(bytes) == IF ~apiKey THEN "raise" ELSE bytes

\* What the awaited client calls of a job can yield.  getAiClient throws when
\* the API key is missing, outside the try blocks of the client functions;
\* every other failure is caught inside them and turned into null.
JobOutcomes ==
    {GenerateSlideImage(bytes) : bytes \in Urls \cup {NoUrl}}
    \cup {GenerateSlideVideo(results, uri) :
             results \in [1..FetchAttempts -> FetchResults], uri \in Urls \cup {NoUrl}}

RemoveJob(k) == SubSeq(jobs, 1, k - 1) \o SubSeq(jobs, k + 1, Len(jobs))

CompleteUserJobOnLive(job, outcome) ==
    IF outcome = "raise"
    THEN LET fail(s) == MarkFailed(s)
         IN  /\ slides' = MapById(slides, job.id, fail)
             /\ notice' = MediaFailed
             /\ lastPush' = << >>
             /\ UNCHANGED <<history, historyIndex>>
    ELSE LET done(s) == MarkDone(s, job.kind, outcome)
             updatedSlides == MapById(slides, job.id, done)
         IN  /\ slides' = updatedSlides
             /\ history' = PushLog(history, job.cIdx, updatedSlides, job.title)
             /\ historyIndex' = PushIndex(historyIndex, job.cLen)
             /\ notice' = NoNotice
             /\ lastPush' = EntryAt(history, historyIndex)

CompleteUserJobFirstWins(job, outcome) ==
    IF outcome = "raise"
    THEN LET fail(s) == MarkFailed(s)
         IN  /\ slides' = MapById(slides, job.id, fail)
             /\ notice' = MediaFailed
             /\ lastPush' = << >>
             /\ UNCHANGED <<history, historyIndex>>
    ELSE LET done(s) == MarkDone(s, job.kind, outcome)
             updatedSlides ==
                 IF \E p \in 1..Len(slides) :
                       slides[p].id = job.id /\ slides[p].isLoadingMedia = "true"
                 THEN MapById(job.slides, job.id, done)
                 ELSE slides
         IN  /\ slides' = updatedSlides
             /\ history' = PushLog(history, job.cIdx, updatedSlides, job.title)
             /\ historyIndex' = PushIndex(historyIndex, job.cLen)
             /\ notice' = NoNotice
             /\ lastPush' = EntryAt(history, historyIndex)

\* generateMediaForSlide from the await to its end.
CompleteUserJob(job, outcome) ==
    IF outcome = "raise"
    THEN LET fail(s) == MarkFailed(s)
         IN  /\ slides' = MapById(slides, job.id, fail)
             /\ notice' = MediaFailed
             /\ lastPush' = << >>
             /\ UNCHANGED <<history, historyIndex>>
    ELSE LET done(s) == MarkDone(s, job.kind, outcome)
             updatedSlides == MapById(job.slides, job.id, done)
         IN  /\ slides' = updatedSlides
             /\ history' = PushLog(history, job.cIdx, updatedSlides, job.title)
             /\ historyIndex' = PushIndex(historyIndex, job.cLen)
             /\ notice' = NoNotice
             /\ lastPush' = EntryAt(history, historyIndex)

\* The .then callbacks of the title-image chain.
CompleteAutoJob(outcome) ==
    LET done(s) == IF outcome # NoUrl
                   THEN [s EXCEPT !.isLoadingMedia = "false", !.mediaUrl = outcome,
                                  !.mediaType = "image"]
                   ELSE MarkFailed(s)
    IN  /\ slides' = MapFirst(slides, done)
        /\ notice' = NoNotice
        /\ lastPush' = << >>
        /\ UNCHANGED <<history, historyIndex>>

CompleteJobWith(k, outcome) ==
    /\ IF jobs[k].auto
       THEN outcome # "raise" /\ CompleteAutoJob(outcome)
       ELSE CompleteUserJob(jobs[k], outcome)
    /\ jobs' = RemoveJob(k)
    /\ storage' = Persist(status, slides', presentationTitle, storage)
    /\ lastJob' = << jobs[k] >>
    /\ UNCHANGED request
    /\ UNCHANGED <<currentSlideIndex, status, presentationTitle, isRestoringHistory,
                   timers, clock, apiKey, budget>>

CompleteJob == \E k \in 1..Len(jobs), outcome \in JobOutcomes : CompleteJobWith(k, outcome)

----------------------------------------------------------------------------
(* Structuring *)

\* The submit button of the input form is enabled unless a request is pending.
HandleGenerateStructure ==
    /\ status = "idle"
    /\ budget > 0
    /\ \E topic \in Topics : presentationTitle' = topic
    /\ status' = "analyzing"
    /\ notice' = NoNotice
    /\ lastPush' = << >>
    /\ budget' = budget - 1
    /\ request' = << [slides |-> slides, title |-> presentationTitle,
                       history |-> history, historyIndex |-> historyIndex] >>
    /\ lastJob' = << >>
    /\ UNCHANGED <<slides, currentSlideIndex, history, historyIndex,
                   isRestoringHistory, timers, jobs, storage, clock, apiKey>>

\* generatePresentationStructure's result: the drafts hydrated with ids,
\* mediaType None and isLoadingMedia false.
Generated(n) ==
    [i \in 1..n |->
        MkSlide(clock + i - 1,
                IF i = 1 THEN "title" ELSE IF i = n THEN "conclusion" ELSE "center",
                "a", "none", NoUrl, "false")]

StructureSucceeds ==
    /\ status = "analyzing"
    /\ apiKey
    /\ \E n \in GenSizes :
          LET generatedSlides == Generated(n)
              mark(s) == MarkLoading(s, "image")
          IN  /\ slides' = MapFirst(generatedSlides, mark)
              /\ history' = << Entry(generatedSlides, presentationTitle) >>
              /\ jobs' = IF n > 0 THEN Append(jobs, AutoJob(generatedSlides[1])) ELSE jobs
              /\ clock' = clock + n
    /\ status' = "complete"
    /\ historyIndex' = 0
    /\ notice' = NoNotice
    /\ lastPush' = << >>
    /\ storage' = Persist(status', slides', presentationTitle, storage)
    /\ request' = << >>
    /\ lastJob' = << >>
    /\ UNCHANGED <<currentSlideIndex, presentationTitle, isRestoringHistory, timers,
                   apiKey, budget>>

StructureFails ==
    /\ status = "analyzing"
    /\ status' = "error"
    /\ notice' = StructureFailed
    /\ lastPush' = << >>
    /\ request' = << >>
    /\ lastJob' = << >>
    /\ UNCHANGED <<slides, currentSlideIndex, presentationTitle, history,
                   historyIndex, isRestoringHistory, timers, jobs, storage, clock,
                   apiKey, budget>>

----------------------------------------------------------------------------
(* A session that has filled the log to one entry below its limit: on the  *)
(* restored project, with the title slide shown, HistoryLimit - 2 rounds   *)
(* of Generate (image), a null result, and Undo once its timer has fired.  *)
(* Each round leaves the deck as the null result left it and appends one   *)
(* entry holding that deck, with the index at the last entry.              *)

DeepSlides ==
    << MkSlide(1, "title", "a", "none", NoUrl, "false"),
       MkSlide(2, "conclusion", "a", "none", NoUrl, "false") >>

DeepHistory ==
    [i \in 1..(HistoryLimit - 1) |->
        IF i = 1 THEN Entry(ParseSlides(SavedProject[1].slides), SavedProject[1].title)
        ELSE Entry(DeepSlides, SavedProject[1].title)]

InitDeep ==
    /\ slides = DeepSlides
    /\ currentSlideIndex = 0
    /\ status = "complete"
    /\ presentationTitle = SavedProject[1].title
    /\ history = DeepHistory
    /\ historyIndex = Len(DeepHistory) - 1
    /\ isRestoringHistory = FALSE
    /\ timers = 0
    /\ jobs = << >>
    /\ storage = Persist(status, slides, presentationTitle, NoStorage)
    /\ clock = 3
    /\ apiKey = TRUE
    /\ notice = NoNotice
    /\ lastPush = << >>
    /\ lastJob = << >>
    /\ request = << >>
    /\ budget = DeepOps

----------------------------------------------------------------------------
Next ==
    \/ AddSlide
    \/ DeleteSlide
    \/ MoveSlide
    \/ ChangeLayout
    \/ Undo
    \/ Redo
    \/ RestoreTimer
    \/ DeleteProject
    \/ EditText
    \/ RemoveMedia
    \/ SaveSnapshot
    \/ SelectSlide
    \/ NextSlide
    \/ PrevSlide
    \/ GenerateMedia
    \/ CompleteJob
    \/ HandleGenerateStructure
    \/ StructureSucceeds
    \/ StructureFails

Spec == Init /\ [][Next]_vars

SpecDeep == InitDeep /\ [][Next]_vars

\* The handlers as above, and generateMediaForSlide called with any slide id.
NextCalls == Next \/ GenerateMediaAny

SpecCalls == InitDeep /\ [][NextCalls]_vars

----------------------------------------------------------------------------
(* Steps named by the properties below *)

\* A run of addSlide, deleteSlide, moveSlide or changeLayout that edits the deck.
StructuralEdit ==
    \/ AddSlide
    \/ ChangeLayout
    \/ DeleteSlide /\ ~OnlySlideLeft(slides)
    \/ MoveSlide /\ slides' # slides

\* A handler run that calls pushToHistory once, through the callback of the
\* current render.
SinglePush ==
    \/ GenerateMedia
    \/ SaveSnapshot /\ ~SnapshotSkipped

\* The completion of a user-started media job that reaches its post-job push.
JobPush ==
    \E k \in 1..Len(jobs), outcome \in JobOutcomes :
        /\ ~jobs[k].auto
        /\ outcome # "raise"
        /\ CompleteJobWith(k, outcome)

PushStep == StructuralEdit \/ SinglePush \/ JobPush

RedoEnabled == historyIndex < Len(history) - 1

\* A run of one of the editing operations of the editor view.
EditingStep ==
    \/ AddSlide
    \/ DeleteSlide
    \/ MoveSlide
    \/ ChangeLayout
    \/ GenerateMedia
    \/ Undo
    \/ Redo

LogFull == Len(history) = HistoryLimit /\ historyIndex = HistoryLimit - 1

----------------------------------------------------------------------------
(* Properties *)

\* C1: in every reachable state the history index lies in [-1, length-1] of
\* the history log, and it is -1 exactly when the log is empty.
C1_IndexWithinLog ==
    /\ historyIndex >= -1
    /\ historyIndex <= Len(history) - 1
    /\ (historyIndex = -1) <=> (Len(history) = 0)

\* C2: the history log never holds more than 30 entries.
C2_LogBounded == Len(history) <= HistoryLimit

\* C2 witness: a push has just been applied to a log already at its limit, and
\* the oldest entry (the restored project) is gone.
C2_PushedAtLimit ==
    /\ Len(history) = HistoryLimit
    /\ history[1] # DeepHistory[1]
    /\ lastPush # << >>

\* C3: a push applied to a full log (30 entries, index at the last entry)
\* drops the oldest entry, leaves 30 entries and leaves the index at the
\* newly appended entry, position 29.
C3_PushOnFullLog ==
    [][(LogFull /\ SinglePush) =>
          /\ Len(history') = HistoryLimit
          /\ SubSeq(history', 1, HistoryLimit - 1) = Tail(history)
          /\ history'[HistoryLimit] = Entry(slides, presentationTitle)
          /\ historyIndex' = HistoryLimit - 1]_vars

\* C4: right after every push the index is at the last entry of the log and
\* redo is a no-op, and redo becomes possible only through an undo.
C4_PushPrunesRedo ==
    [][/\ PushStep => (historyIndex' = Len(history') - 1 /\ ~RedoEnabled')
       /\ (~RedoEnabled /\ RedoEnabled') => Undo]_vars

\* C5: one undo performed right after a push sets the live deck's title and
\* slides to the snapshot that was current immediately before that push.
C5_UndoAfterPush ==
    [][(Undo /\ lastPush # << >>) =>
          /\ slides' = lastPush[1].slides
          /\ presentationTitle' = lastPush[1].title]_vars

\* C6: a saveSnapshot call that pushed leaves a state in which a second call,
\* with the deck unchanged, returns without pushing: two calls in a row add at
\* most one entry.
C6_SnapshotIdempotent ==
    [][(SaveSnapshot /\ ~SnapshotSkipped) => SnapshotSkipped']_vars

\* C7: each structural edit leaves two new entries in the log, the pre-edit
\* deck right after the old index and the post-edit deck after it, with the
\* index at the post-edit entry.
C7_EditBracketed ==
    [][(StructuralEdit /\ historyIndex + 3 <= HistoryLimit) =>
          /\ Len(history') = historyIndex + 3
          /\ history'[historyIndex + 2] = Entry(slides, presentationTitle)
          /\ history'[historyIndex + 3] = Entry(slides', presentationTitle')
          /\ historyIndex' = historyIndex + 2]_vars

\* C8: deleteSlide on a deck of exactly one slide changes neither the deck,
\* the selection nor the history, and a deck with at least one slide has at
\* least one slide after every deleteSlide.
C8_DeleteKeepsOne ==
    [][DeleteSlide =>
          /\ Len(slides') >= 1
          /\ Len(slides) = 1 =>
                UNCHANGED <<slides, currentSlideIndex, history, historyIndex>>]_vars

\* C8 witness: deleteSlide has just been refused on a one-slide deck.
C8_Refused == notice = DeleteRefused /\ Len(slides) = 1

\* C9: moveSlide(i, dir) at a boundary leaves slide order, selection and
\* history unchanged; otherwise it exchanges the slides at i and its
\* neighbour, leaves every other position unchanged, and the selected slide
\* keeps its identity.
C9_MoveExchanges ==
    [][\A i \in 0..(Len(slides) - 1), dir \in {"up", "down"} :
          MoveSlideAt(i, dir) =>
            LET j == IF dir = "up" THEN i - 1 ELSE i + 1
            IN  IF j < 0 \/ j > Len(slides) - 1
                THEN UNCHANGED <<slides, currentSlideIndex, history, historyIndex>>
                ELSE /\ Len(slides') = Len(slides)
                     /\ slides'[i + 1] = slides[j + 1]
                     /\ slides'[j + 1] = slides[i + 1]
                     /\ \A p \in 1..Len(slides) :
                           p \notin {i + 1, j + 1} => slides'[p] = slides[p]
                     /\ HasCurrentSlide =>
                           /\ currentSlideIndex' < Len(slides')
                           /\ slides'[currentSlideIndex' + 1].id = CurrentSlide.id]_vars

\* C9 witness: [A, N, B] with N selected has become [N, A, B] with selection 0
\* by moveSlide(1, 'up'); the added slide N gets to the front only by a move.
C9_MovedUp ==
    /\ Len(slides) = 3
    /\ slides[1].title = "New Slide"
    /\ slides[2].id = 1
    /\ slides[3].id = 2
    /\ currentSlideIndex = 0
    /\ lastPush = << Entry(<< slides[2], slides[1], slides[3] >>, presentationTitle) >>

\* C10: when a media job on an existing slide gets null from the generation
\* call, the slide ends with media kind none, no locator and loading false,
\* and the log has gained exactly two entries over the run.
C10_NullResult ==
    [][\A k \in 1..Len(jobs) :
          (/\ ~jobs[k].auto
           /\ NoUrl \in JobOutcomes
           /\ Len(history) = jobs[k].cLen + 1
           /\ historyIndex = jobs[k].cIdx + 1
           /\ jobs[k].cLen + 2 <= HistoryLimit
           /\ CompleteJobWith(k, NoUrl)) =>
             /\ \E p \in 1..Len(slides') :
                   /\ slides'[p].id = jobs[k].id
                   /\ slides'[p].mediaType = "none"
                   /\ slides'[p].mediaUrl = NoUrl
                   /\ slides'[p].isLoadingMedia = "false"
             /\ Len(history') = jobs[k].cLen + 2]_vars

\* C11: when a media job on an existing slide gets a locator from the
\* generation call, the slide ends with that locator, the requested media
\* kind and loading false, and the entry at the history index after the
\* completion is the snapshot of the resulting deck.
C11_LocatorResult ==
    [][\A k \in 1..Len(jobs), url \in Urls :
          (/\ ~jobs[k].auto
           /\ url \in JobOutcomes
           /\ CompleteJobWith(k, url)) =>
             /\ \E p \in 1..Len(slides') :
                   /\ slides'[p].id = jobs[k].id
                   /\ slides'[p].mediaUrl = url
                   /\ slides'[p].mediaType = jobs[k].kind
                   /\ slides'[p].isLoadingMedia = "false"
             /\ HasLastState'
             /\ history'[historyIndex' + 1] = Entry(slides', presentationTitle')]_vars

\* C12: generateMedia pushes the pre-job checkpoint, and when its call chain
\* raises, the target slide ends with loading false and media kind none, the
\* failure notice is raised and the completion adds nothing to the log.
C12_RaisedFailure ==
    [][/\ GenerateMedia =>
             /\ Len(history') >= 1
             /\ history'[Len(history')] = Entry(slides, presentationTitle)
       /\ \A k \in 1..Len(jobs) :
             (/\ ~jobs[k].auto
              /\ "raise" \in JobOutcomes
              /\ CompleteJobWith(k, "raise")) =>
                /\ \A p \in 1..Len(slides') :
                      slides'[p].id = jobs[k].id =>
                         /\ slides'[p].isLoadingMedia = "false"
                         /\ slides'[p].mediaType = "none"
                /\ notice' = MediaFailed
                /\ UNCHANGED <<history, historyIndex>>]_vars

\* C12 witness: a job has just failed on a slide still in the deck, and the
\* last entry of the log is the checkpoint pushed when it was invoked.
C12_Failed ==
    /\ notice = MediaFailed
    /\ lastJob # << >>
    /\ \E p \in 1..Len(slides) :
          /\ slides[p].id = lastJob[1].id
          /\ slides[p].isLoadingMedia = "false"
          /\ slides[p].mediaType = "none"
    /\ Len(history) = lastJob[1].cLen + 1
    /\ history[Len(history)] = Entry(lastJob[1].slides, lastJob[1].title)

\* C13: a single undo right after a media job failed restores title and
\* slides of the live deck to what they were when generateMedia was invoked.
C13_UndoAfterFailure ==
    [][(Undo /\ notice = MediaFailed) =>
          /\ slides' = lastJob[1].slides
          /\ presentationTitle' = lastJob[1].title]_vars

\* C14: in every reachable state every slide of the live deck that has a media
\* locator has a media kind other than none.
C14_LocatorHasKind ==
    \A p \in 1..Len(slides) :
        slides[p].mediaUrl # NoUrl => slides[p].mediaType # "none"

\* C15: whichever way a user-started media job completes (locator, null or
\* raised failure), its target slide has loading false right after the
\* completion is applied.
C15_LoadingCleared ==
    [][\A k \in 1..Len(jobs), outcome \in JobOutcomes :
          (~jobs[k].auto /\ CompleteJobWith(k, outcome)) =>
             \A p \in 1..Len(slides') :
                slides'[p].id = jobs[k].id => slides'[p].isLoadingMedia = "false"]_vars

\* C15 witness: a video job has just completed with a locator and its target
\* slide carries it and is no longer loading.
C15_Completed ==
    /\ lastJob # << >>
    /\ ~lastJob[1].auto
    /\ lastJob[1].kind = "video"
    /\ \E p \in 1..Len(slides) :
          /\ slides[p].id = lastJob[1].id
          /\ slides[p].mediaUrl \in Urls
          /\ slides[p].mediaType = "video"
          /\ slides[p].isLoadingMedia = "false"

\* C16: undo and redo never fail: whenever undo passes its guard the entry at
\* index-1 exists and is written to the live deck with the index decremented,
\* and whenever redo passes its guard the entry at index+1 exists and is
\* written with the index incremented.
C16_UndoRedoTotal ==
    [][/\ Undo =>
             /\ historyIndex - 1 < Len(history)
             /\ slides' = history[historyIndex].slides
             /\ presentationTitle' = history[historyIndex].title
             /\ historyIndex' = historyIndex - 1
             /\ notice' # UncaughtTypeError
       /\ Redo =>
             /\ historyIndex + 1 >= 0
             /\ slides' = history[historyIndex + 2].slides
             /\ presentationTitle' = history[historyIndex + 2].title
             /\ historyIndex' = historyIndex + 1]_vars

\* C17: a confirmed deleteProject leaves the deck without slides and with an
\* empty title, status idle, the history log empty with index -1, and no
\* persisted record.
C17_ProjectDeleted ==
    [][DeleteProjectIf(TRUE) =>
          /\ slides' = << >>
          /\ presentationTitle' = ""
          /\ status' = "idle"
          /\ history' = << >>
          /\ historyIndex' = -1
          /\ storage' = NoStorage]_vars

\* C17 witness: the restored project has been deleted (a session that started
\* without a saved project and never got slides has its clock below 3).
C17_Deleted ==
    /\ clock >= 3
    /\ status = "idle"
    /\ slides = << >>
    /\ history = << >>
    /\ historyIndex = -1
    /\ storage = NoStorage

\* C18: when the structuring call fails, status becomes error, and title,
\* slides and history log are the same as before the structuring request
\* was made.
C18_StructureFailure ==
    [][StructureFails =>
          /\ status' = "error"
          /\ slides' = request[1].slides
          /\ presentationTitle' = request[1].title
          /\ history' = request[1].history
          /\ historyIndex' = request[1].historyIndex]_vars

\* C19: status changes only from idle to analyzing and from analyzing to
\* complete or error (and back to idle by a confirmed deleteProject), it is
\* never structuring or visualizing, and add, delete, move, change layout,
\* generateMedia, undo and redo run only while status is complete.
C19_StatusMachine ==
    [][/\ status' # status =>
             \/ <<status, status'>> \in {<<"idle", "analyzing">>,
                                         <<"analyzing", "complete">>,
                                         <<"analyzing", "error">>}
             \/ DeleteProjectIf(TRUE)
       /\ status' \notin {"structuring", "visualizing"}
       /\ EditingStep => status = "complete"]_vars

\* C20: when every attempt to fetch the video asset fails, the media job ends
\* as a raised failure: the failure notice is raised, the slide has no media
\* and no post-job entry is pushed.
C20_FetchExhausted ==
    [][\A k \in 1..Len(jobs), results \in [1..FetchAttempts -> {"404", "error"}],
          uri \in Urls :
          (/\ ~jobs[k].auto
           /\ jobs[k].kind = "video"
           /\ apiKey
           /\ CompleteJobWith(k, GenerateSlideVideo(results, uri))) =>
             /\ notice' = MediaFailed
             /\ \A p \in 1..Len(slides') :
                   slides'[p].id = jobs[k].id =>
                      /\ slides'[p].mediaType = "none"
                      /\ slides'[p].mediaUrl = NoUrl
             /\ UNCHANGED <<history, historyIndex>>]_vars

\* C21: when a media job completes with a locator, the live deck becomes the
\* slide list captured at invocation with only the target slide updated, so
\* edits made to the deck between invocation and completion are gone.
C21_StaleWriteBack ==
    [][\A k \in 1..Len(jobs), url \in Urls :
          (/\ ~jobs[k].auto
           /\ url \in JobOutcomes
           /\ CompleteJobWith(k, url)) =>
             /\ Len(slides') = Len(jobs[k].slides)
             /\ \A p \in 1..Len(slides') :
                   IF jobs[k].slides[p].id = jobs[k].id
                   THEN slides'[p] = [jobs[k].slides[p] EXCEPT
                                         !.isLoadingMedia = "false",
                                         !.mediaUrl = url,
                                         !.mediaType = jobs[k].kind]
                   ELSE slides'[p] = jobs[k].slides[p]]_vars

\* C21 witness: in the restored session one generateMedia and one addSlide
\* have run and the job has just completed with a locator; the slide added
\* (id 3) was not in the deck at invocation and is not in the deck now.
C21_AddDiscarded ==
    /\ lastJob # << >>
    /\ ~lastJob[1].auto
    /\ budget = MaxOps - 2
    /\ clock = 4
    /\ ~HasSlide(lastJob[1].slides, 3)
    /\ ~HasSlide(slides, 3)
    /\ \E p \in 1..Len(slides) :
          slides[p].id = lastJob[1].id /\ slides[p].mediaUrl \in Urls

\* C22: generateMedia on a slide that already has a job in flight starts a
\* second job, and each of the overlapping jobs, in whatever order they
\* complete, writes its own media kind and locator onto the slide, so the
\* job that completes last determines them.
C22_LastWriterWins ==
    [][/\ \A kind \in Kinds :
             (/\ HasCurrentSlide
              /\ \E k \in 1..Len(jobs) : ~jobs[k].auto /\ jobs[k].id = CurrentSlide.id
              /\ GenerateMediaFor(CurrentSlide.id, kind)) =>
                jobs' = Append(jobs, UserJob(CurrentSlide.id, kind))
       /\ \A k \in 1..Len(jobs), outcome \in JobOutcomes \ {"raise"} :
             (~jobs[k].auto /\ CompleteJobWith(k, outcome)) =>
                \E p \in 1..Len(slides') :
                   /\ slides'[p].id = jobs[k].id
                   /\ slides'[p].mediaUrl = outcome
                   /\ slides'[p].mediaType =
                         IF outcome = NoUrl THEN "none" ELSE jobs[k].kind]_vars

\* C22 witness: two jobs of different kinds overlapped on one slide; the one
\* invoked first has just completed with a locator, after the slide had left
\* the loading state, and the slide carries its kind, while the other is
\* still in flight.
C22_Overlapped ==
    /\ lastJob # << >>
    /\ ~lastJob[1].auto
    /\ \E k \in 1..Len(jobs) :
          /\ ~jobs[k].auto
          /\ jobs[k].id = lastJob[1].id
          /\ jobs[k].kind # lastJob[1].kind
          /\ jobs[k].cLen > lastJob[1].cLen
    /\ \E p \in 1..Len(slides) :
          /\ slides[p].id = lastJob[1].id
          /\ slides[p].mediaUrl \in Urls
          /\ slides[p].mediaType = lastJob[1].kind

\* C23: deleteSlide(i) on a deck of more than one slide removes exactly the
\* slide at i and keeps the others in order, decrements the selection exactly
\* when it was >= i and > 0, and leaves a selection that was a valid index a
\* valid index of the shortened deck.
C23_DeleteRemoves ==
    [][\A i \in 0..(Len(slides) - 1) :
          (DeleteSlideAt(i) /\ Len(slides) > 1) =>
             /\ Len(slides') = Len(slides) - 1
             /\ \A p \in 1..Len(slides') :
                   slides'[p] = IF p <= i THEN slides[p] ELSE slides[p + 1]
             /\ currentSlideIndex' =
                   IF currentSlideIndex >= i /\ currentSlideIndex > 0
                   THEN currentSlideIndex - 1 ELSE currentSlideIndex
             /\ (currentSlideIndex >= 0 /\ currentSlideIndex < Len(slides)) =>
                   (currentSlideIndex' >= 0 /\ currentSlideIndex' < Len(slides'))]_vars

\* C23 witness: the last of the two slides of the restored project has just
\* been deleted; the first is left and is selected.
C23_Deleted ==
    /\ lastPush = << Entry(ParseSlides(SavedProject[1].slides), SavedProject[1].title) >>
    /\ slides = << lastPush[1].slides[1] >>
    /\ currentSlideIndex = 0

\* C24: addSlide inserts one new slide with the default content (layout
\* split-right, media kind none) at position selection+1, leaves the existing
\* slides unchanged and in order, and selects the new slide.
C24_AddInserts ==
    [][AddSlide =>
          /\ Len(slides') = Len(slides) + 1
          /\ currentSlideIndex + 1 <= Len(slides)
          /\ slides'[currentSlideIndex + 2].layout = "split-right"
          /\ slides'[currentSlideIndex + 2].mediaType = "none"
          /\ ~HasSlide(slides, slides'[currentSlideIndex + 2].id)
          /\ \A p \in 1..Len(slides) :
                slides[p] = slides'[IF p <= currentSlideIndex + 1 THEN p ELSE p + 1]
          /\ currentSlideIndex' = currentSlideIndex + 1]_vars

\* C25: generateMedia called with a slide id that is not in the deck changes
\* no slide, starts no job and leaves the history log and index as they were.
C25_AbsentSlideNoOp ==
    [][\A slideId \in CallIds, kind \in Kinds :
          (~HasSlide(slides, slideId) /\ GenerateMediaFor(slideId, kind)) =>
             UNCHANGED <<slides, jobs, history, historyIndex>>]_vars

\* C26: saveSnapshot adds no entry while the restoration guard is set, undo
\* and redo leave the entries of the log unchanged, and after every undo or
\* redo the reset of the guard is pending, so that the guard is cleared again.
C26_RestoreNotRecorded ==
    [][/\ (SaveSnapshot /\ isRestoringHistory) => UNCHANGED <<history, historyIndex>>
       /\ (Undo \/ Redo) =>
             /\ history' = history
             /\ isRestoringHistory' => timers' > 0]_vars

\* C27: whenever the editor view is shown with a non-empty deck, the selection
\* is a valid index of the deck.
C27_SelectionValid ==
    (EditorShown /\ Len(slides) > 0) =>
        (currentSlideIndex >= 0 /\ currentSlideIndex < Len(slides))

\* C28: every slide of the live deck whose loading flag is true has a media
\* job in flight that was started for it (a user-started job or the
\* title-image job).
C28_LoadingHasJob ==
    \A p \in 1..Len(slides) :
        slides[p].isLoadingMedia = "true" =>
            \E k \in 1..Len(jobs) : jobs[k].id = slides[p].id

\* C29: while no project is open (status idle, or analyzing until the
\* structuring request succeeds) the deck has no slides and the history log
\* is empty with index -1, also when media jobs started before a
\* deleteProject complete afterwards.
C29_DeletedStaysEmpty ==
    status \in {"idle", "analyzing"} =>
        /\ slides = << >>
        /\ history = << >>
        /\ historyIndex = -1

\* C30: the title-image job applies its outcome (locator and kind image, or
\* kind none, with loading cleared) to the slide on which it set the loading
\* flag and changes no other slide, wherever that slide is in the deck when
\* the job completes.
C30_AutoJobTarget ==
    [][\A k \in 1..Len(jobs), outcome \in JobOutcomes \ {"raise"} :
          (jobs[k].auto /\ CompleteJobWith(k, outcome)) =>
             /\ Len(slides') = Len(slides)
             /\ \A p \in 1..Len(slides) :
                   IF slides[p].id = jobs[k].id
                   THEN /\ slides'[p].isLoadingMedia = "false"
                        /\ slides'[p].mediaType =
                              IF outcome = NoUrl THEN "none" ELSE "image"
                        /\ outcome # NoUrl => slides'[p].mediaUrl = outcome
                   ELSE slides'[p] = slides[p]]_vars

====
